---- MODULE Spec2Model ----
(***************************************************************************)
(* A model of Solutions/dev/test.py: the variable substitution engine, the *)
(* compile / run / compare pipeline of test_solution, the cross-user       *)
(* consistency check, finalization, and the main loop that drives them.    *)
(*                                                                         *)
(* Python strings whose characters matter (command templates, file names   *)
(* given to os.path.splitext) are sequences of one-character strings.      *)
(* Strings that are only compared for equality (captured outputs, file     *)
(* contents) are TLA+ strings.                                             *)
(***************************************************************************)
EXTENDS Integers, Sequences, FiniteSets, TLC

(***************************************************************************)
(* Bounds of the model.                                                    *)
(***************************************************************************)
\* longest command template drawn for a language block
MaxLen == 2
\* longest list of users handed to compare_generated_outputs on its own
MaxUsers == 3
\* longest peopleToTest of the main loop
MaxPeople == 2

(***************************************************************************)
(* Configuration.                                                          *)
(***************************************************************************)
\* definitions['problem_count'], read at test.py line 338. The script is run
\* for all problems (args.problem is 'a'), so problemsToDo is 1..problemCount.
problemCount == 1

(***************************************************************************)
(* ---------------- Variable substitution engine ------------------------- *)
(***************************************************************************)
VARIABLES
    variables,          \* conf/variables.json: placeholder name -> placeholder text
    languageBlock,      \* the language block handed to replace_language_vars
    problemFile,        \* the solution's file name
    directory,          \* the directory holding the solution
    newLanguageBlock,   \* what the last call returned (NoBlock before any call)
    firstLanguageBlock, \* what the first call returned
    substCalls          \* number of calls made so far

substVars == <<variables, languageBlock, problemFile, directory,
               newLanguageBlock, firstLanguageBlock, substCalls>>

NoResult == "NoResult"
\* a Python bool kept in a variable that may also hold NoResult
PyBool(b) == IF b THEN "True" ELSE "False"

\* a str value and a list value of a language block (isinstance(x, list))
Str(s) == [list |-> FALSE, str |-> s]
List(l) == [list |-> TRUE, items |-> l]
\* the value of a block variable that holds no block (no call made yet)
NoBlock == [unset |-> Str(<<>>)]

\* s.startswith(old)
StartsWith(s, old) == Len(s) >= Len(old) /\ SubSeq(s, 1, Len(old)) = old

\* Python's str.replace(old, new): left to right, non-overlapping occurrences
\* of old; the text put in place of an occurrence is not scanned again.
RECURSIVE Replace(_, _, _)
Replace(s, old, new) ==
    IF old = <<>>
    THEN IF s = <<>> THEN new
         ELSE new \o <<Head(s)>> \o Replace(Tail(s), old, new)
    ELSE IF Len(s) < Len(old) THEN s
    ELSE IF StartsWith(s, old)
         THEN new \o Replace(SubSeq(s, Len(old) + 1, Len(s)), old, new)
         ELSE <<Head(s)>> \o Replace(Tail(s), old, new)

\* p.rfind(c): the last index of c in p, 0 when absent (1-based)
RFind(p, c) ==
    LET hits == {i \in 1..Len(p) : p[i] = c}
    IN  IF hits = {} THEN 0 ELSE CHOOSE i \in hits : \A j \in hits : j <= i

\* os.path.splitext(p)[0]: cut at the last dot, unless that dot comes before
\* the last separator or only dots stand between the separator and it.
splitext(p) ==
    LET sepIndex == RFind(p, "/")
        dotIndex == RFind(p, ".")
    IN  IF dotIndex > sepIndex
           /\ \E i \in (sepIndex + 1)..(dotIndex - 1) : p[i] # "."
        THEN SubSeq(p, 1, dotIndex - 1)
        ELSE p

\* test.py replace_language_vars_individual: three chained str.replace calls,
\* filename first, then filename_less_extension, then directory.
replace_language_vars_individual(string, pFile, dir) ==
    LET filenameWithoutExtension == splitext(pFile)
    IN  Replace(
          Replace(
            Replace(string, variables.filename, pFile),
            variables.filename_less_extension, filenameWithoutExtension),
          variables.directory, dir)

\* a plausible slip: list-valued items are created but never filled
replace_language_vars_lists_dropped(block, pFile, dir) ==
    [key \in DOMAIN block |->
        IF block[key].list
        THEN List(<<>>)
        ELSE Str(replace_language_vars_individual(block[key].str, pFile, dir))]

\* test.py replace_language_vars: a new block with every str item and every
\* entry of every list item rewritten.
replace_language_vars(block, pFile, dir) ==
    [key \in DOMAIN block |->
        IF block[key].list
        THEN List([i \in 1..Len(block[key].items) |->
                 replace_language_vars_individual(block[key].items[i], pFile, dir)])
        ELSE Str(replace_language_vars_individual(block[key].str, pFile, dir))]

(***************************************************************************)
(* Inputs of the substitution engine.                                      *)
(***************************************************************************)
RECURSIVE SeqsUpTo(_, _)
SeqsUpTo(S, n) ==
    IF n = 0 THEN {<<>>}
    ELSE LET shorter == SeqsUpTo(S, n - 1)
         IN  shorter \cup {Append(s, c) : s \in {t \in shorter : Len(t) = n - 1}, c \in S}

TemplateChars == {"F", "L", "D", "x"}
Templates == SeqsUpTo(TemplateChars, MaxLen)

\* placeholder texts: one mapping with disjoint texts, one in which the
\* filename text is a prefix of the filename_less_extension text
PlaceholderMaps ==
    { [filename |-> <<"F">>, filename_less_extension |-> <<"L">>, directory |-> <<"D">>],
      [filename |-> <<"F">>, filename_less_extension |-> <<"F", "L">>, directory |-> <<"D">>] }

\* solution file names: a plain one, and one that contains the directory text
ProblemFiles == { <<"p", ".", "y">>, <<"D", ".", "y">> }
Directories == { <<"/", "u">> }

\* language blocks: an interpreted one and a compiled one
LanguageBlocks ==
    { [language |-> Str(<<"y">>), runExtension |-> Str(<<"y">>),
       runCommand |-> Str(c), runArguments |-> List(<<a>>)] :
         c \in Templates, a \in Templates }
    \cup
    { [language |-> Str(<<"j">>), compileExtension |-> Str(<<"j">>),
       compileCommand |-> Str(c), compileArguments |-> List(<<a, <<"x">> >>),
       runExtension |-> Str(<<"c">>),
       runCommand |-> Str(<<"x">>), runArguments |-> List(<<a>>)] :
         c \in Templates, a \in Templates }

\* the substitution engine at rest (the other specifications do not call it)
SubstIdle ==
    /\ variables = [filename |-> <<"F">>, filename_less_extension |-> <<"L">>,
                    directory |-> <<"D">>]
    /\ languageBlock = NoBlock
    /\ problemFile = <<>>
    /\ directory = <<>>
    /\ newLanguageBlock = NoBlock
    /\ firstLanguageBlock = NoBlock
    /\ substCalls = 0

(***************************************************************************)
(* ---------------- The file system ------------------------------------- *)
(* A file of the test directory, of a user's output directory and of the   *)
(* final directory is named by its basename                                *)
(*   <solution_naming with the problem number><case extension>.<ending>,   *)
(* written <<problem, case, ending>>.                                      *)
(***************************************************************************)
VARIABLES
    testDir,        \* test directory: basename -> content, or NoFile
    userDirs,       \* the users u with os.path.isdir(userPath)
    writerLinks,    \* the users u with os.path.islink(writersPath/u)
    userListing,    \* user -> the source file names os.listdir(userPath) yields
    userGenerated,  \* user -> problem -> content of userPath/<generated output>, or NoFile
    outputDirs,     \* the users whose output directory exists
    userOutput,     \* user -> basename -> content in the user's output directory, or NoFile
    finalDirExists, \* os.path.isdir(finalDirectory)
    finalDir        \* final directory: basename -> content, or NoFile

fsVars == <<testDir, userDirs, writerLinks, userListing, userGenerated,
            outputDirs, userOutput, finalDirExists, finalDir>>

VARIABLES
    problem,        \* the problem at hand
    peopleToTest,   \* the users at hand, in order
    consistent,     \* what compare_generated_outputs returned (NoResult: not called)
    copied          \* what copy_to_final_io returned (NoResult: not called)

NoFile == "NoFile"
None == "None"
Users == {"alice", "bob", "carol"}
Problems == 1..problemCount
Cases == {"sample", "corner", "generated"}
Endings == {"in", "out"}
Basenames == Problems \X Cases \X Endings
\* what a solution prints, what an expected-output file holds
Outputs == {"a", "b"}
\* what an input file holds
InputText == "i"

EmptyDir == [b \in Basenames |-> NoFile]

(***************************************************************************)
(* ---------------- Cross-user consistency check ------------------------- *)
(***************************************************************************)
\* test.py compare_generated_outputs, lines 277-286: the user's generated
\* output, read from userPath, "" when there is no such file
GeneratedOutput(prob, user) ==
    IF userGenerated[user][prob] = NoFile THEN "" ELSE userGenerated[user][prob]

\* the loop of compare_generated_outputs from its i-th user on, with lastUser
\* the pair (user, output) kept from the iterations before
RECURSIVE CompareFrom(_, _, _, _)
CompareFrom(prob, users, i, lastUser) ==
    IF i > Len(users) THEN TRUE
    ELSE LET output == GeneratedOutput(prob, users[i])
         IN  IF lastUser[1] = None
             THEN CompareFrom(prob, users, i + 1, <<users[i], output>>)
             ELSE IF output # lastUser[2]
                  THEN FALSE
                  ELSE CompareFrom(prob, users, i + 1, <<users[i], output>>)

\* a plausible slip: a user without a generated output file is passed over
RECURSIVE CompareSkippingMissing(_, _, _, _)
CompareSkippingMissing(prob, users, i, lastUser) ==
    IF i > Len(users) THEN TRUE
    ELSE IF userGenerated[users[i]][prob] = NoFile
         THEN CompareSkippingMissing(prob, users, i + 1, lastUser)
    ELSE LET output == userGenerated[users[i]][prob]
         IN  IF lastUser[1] = None
             THEN CompareSkippingMissing(prob, users, i + 1, <<users[i], output>>)
             ELSE IF output # lastUser[2]
                  THEN FALSE
                  ELSE CompareSkippingMissing(prob, users, i + 1, <<users[i], output>>)

compare_skipping_missing(prob, users) ==
    CompareSkippingMissing(prob, users, 1, <<None, None>>)

\* test.py compare_generated_outputs
compare_generated_outputs(prob, users) ==
    CompareFrom(prob, users, 1, <<None, None>>)

(***************************************************************************)
(* ---------------- Finalization ----------------------------------------- *)
(***************************************************************************)
\* a path: the test directory or a user's output directory, and a basename
TestPath(b) == [dir |-> "test", name |-> b]
OutputPath(user, b) == [dir |-> user, name |-> b]

\* os.path.isfile and the content read or copied
Content(path) ==
    IF path.dir = "test" THEN testDir[path.name] ELSE userOutput[path.dir][path.name]
IsFile(path) == Content(path) # NoFile

\* test.py copy_to_final_io, lines 305-320
copyList(prob, user) ==
    << TestPath(<<prob, "sample", "in">>), TestPath(<<prob, "sample", "out">>),
       TestPath(<<prob, "corner", "in">>), TestPath(<<prob, "corner", "out">>),
       TestPath(<<prob, "generated", "in">>),
       OutputPath(user, <<prob, "generated", "out">>) >>

\* shutil.copy(list[i], finalDirectory) for i, i+1, ...: each file lands under
\* its basename, over any file of that name
RECURSIVE CopyEach(_, _, _)
CopyEach(list, i, dir) ==
    IF i > Len(list) THEN dir
    ELSE CopyEach(list, i + 1, [dir EXCEPT ![list[i].name] = Content(list[i])])

\* a plausible slip: the existence check leaves out the last file of the list
copy_unchecked_last(prob, user) ==
    LET list == copyList(prob, user)
    IN  IF \E i \in 1..(Len(list) - 1) : ~IsFile(list[i])
        THEN [ok |-> FALSE, exists |-> finalDirExists, files |-> finalDir]
        ELSE [ok |-> TRUE, exists |-> TRUE, files |-> CopyEach(list, 1, finalDir)]

\* test.py copy_to_final_io: what it returns and the final directory it leaves
copy_to_final_io(prob, user) ==
    LET list == copyList(prob, user)
    IN  IF \E i \in 1..Len(list) : ~IsFile(list[i])
        THEN [ok |-> FALSE, exists |-> finalDirExists, files |-> finalDir]
        ELSE [ok |-> TRUE, exists |-> TRUE, files |-> CopyEach(list, 1, finalDir)]

(***************************************************************************)
(* ---------------- test_solution, run_solution and the main loop -------- *)
(***************************************************************************)
VARIABLES
    pc,             \* where the script stands
    person,         \* the user of the test_solution call at hand (None: none yet)
    personIdx,      \* position of the main loop in peopleToTest
    passingPeople,  \* main loop: users that passed the problem so far
    returned,       \* what the last test_solution call returned (NoResult: none yet)
    raised,         \* the exception that ended the script, None while there is none
    skipSample, skipCorner, generateHTML,   \* args.skipsample, skipcorner, htmldiffs
    inputFileList,          \* test_solution: the input files to run on
    attempts,               \* the (file, language) matches still to be tested
    attempt,                \* the match being tested
    numSolutions, numCorrectSolutions,
    results,                \* run_solution: results.runs
    inputIdx,               \* run_solution: position in inputFiles
    output, outputFileContents, \* run_solution's locals, Unbound until assigned
    diffFiles,              \* the HTML diff files written so far
    \* history kept for the properties
    compileRuns,    \* exit statuses of the processes compile_solution started for this attempt
    compiled,       \* what compile_solution returned for this attempt
    executions,     \* per input of this attempt: the run process's exit status and stdout
    reports,        \* "FAILED ..." lines printed for this attempt
    attempted,      \* attempts made in this test_solution call
    attemptsOk,     \* every attempt so far compiled and had all its runs match
    differSeen,     \* some attempt so far printed something else than expected
    mainLog         \* per problem: verdicts, calls of the consistency check and finalization

mainVars == <<pc, person, personIdx, passingPeople, returned, raised>>
flagVars == <<skipSample, skipCorner, generateHTML>>
testVars == <<inputFileList, attempts, attempt, numSolutions, numCorrectSolutions>>
runVars == <<results, inputIdx, output, outputFileContents>>
histVars == <<compileRuns, compiled, executions, reports,
              attempted, attemptsOk, differSeen>>
argVars == <<problem, peopleToTest, consistent, copied>>

vars == <<substVars, fsVars, argVars, mainVars, flagVars, testVars, runVars,
          diffFiles, histVars, mainLog>>

Unbound == "Unbound"
ExitStatuses == {0, 1}

\* conf/languages.json as loaded at test.py line 102: a compiled language,
\* whose runExtension names the compiled artifact, and an interpreted one
languages ==
    << [language |-> "java", compileExtension |-> "java", runExtension |-> "class"],
       [language |-> "python", runExtension |-> "py"] >>

Extensions == {"java", "class", "py"}
\* a file name <solution_naming with the problem number>.<extension>
SolutionName(prob, ext) == <<prob, ext>>
SourceNames == Problems \X Extensions

\* test.py get_source_extension
get_source_extension(block) ==
    IF "compileExtension" \in DOMAIN block
    THEN block.compileExtension
    ELSE block.runExtension

\* test_solution lines 230-233 for one directory entry: the languages, in
\* catalogue order, whose source extension the entry carries
RECURSIVE MatchesOfFile(_, _, _)
MatchesOfFile(file, prob, i) ==
    IF i > Len(languages) THEN <<>>
    ELSE (IF file = SolutionName(prob, get_source_extension(languages[i]))
          THEN << [file |-> file, lang |-> i] >> ELSE <<>>)
         \o MatchesOfFile(file, prob, i + 1)

\* test_solution lines 229-233: the matches met by the two nested loops when
\* os.listdir yields the entries in the given order
RECURSIVE Matches(_, _)
Matches(listing, prob) ==
    IF listing = <<>> THEN <<>>
    ELSE MatchesOfFile(Head(listing), prob, 1) \o Matches(Tail(listing), prob)

\* the orders in which os.listdir may yield a set of entries
Orderings(S) ==
    {o \in [1..Cardinality(S) -> S] : \A i, j \in DOMAIN o : i # j => o[i] # o[j]}

\* the entries of the user's directory that match in some language; the other
\* entries pass through the two loops without effect, wherever os.listdir
\* puts them
Candidates(user, prob) ==
    {file \in userListing[user] : MatchesOfFile(file, prob, 1) # <<>>}

\* a plausible slip: the generated input is left out along with the corner input
build_generated_with_corner(prob) ==
    LET sampleFile == TestPath(<<prob, "sample", "in">>)
        cornerFile == TestPath(<<prob, "corner", "in">>)
        generatedFile == TestPath(<<prob, "generated", "in">>)
    IN  (IF ~skipSample /\ IsFile(sampleFile) THEN <<sampleFile>> ELSE <<>>)
        \o (IF ~skipCorner /\ IsFile(cornerFile) THEN <<cornerFile>> ELSE <<>>)
        \o (IF ~skipCorner /\ IsFile(generatedFile) THEN <<generatedFile>> ELSE <<>>)

\* test_solution lines 211-224
BuildInputFileList(prob) ==
    LET sampleFile == TestPath(<<prob, "sample", "in">>)
        cornerFile == TestPath(<<prob, "corner", "in">>)
        generatedFile == TestPath(<<prob, "generated", "in">>)
    IN  (IF ~skipSample /\ IsFile(sampleFile) THEN <<sampleFile>> ELSE <<>>)
        \o (IF ~skipCorner /\ IsFile(cornerFile) THEN <<cornerFile>> ELSE <<>>)
        \o (IF IsFile(generatedFile) THEN <<generatedFile>> ELSE <<>>)

\* a plausible slip: the process's status is never looked at
compile_ignoring_status(block, status) ==
    IF "compileExtension" \in DOMAIN block
    THEN [calls |-> 1, ok |-> TRUE]
    ELSE [calls |-> 0, ok |-> TRUE]

\* test.py compile_solution, given the exit status the compile process would
\* end with: the number of subprocess.call invocations and the value returned
compile_solution(block, status) ==
    IF "compileExtension" \in DOMAIN block
    THEN [calls |-> 1, ok |-> (status = 0)]
    ELSE [calls |-> 0, ok |-> TRUE]

\* run_solution lines 171-172: the expected-output path of an input file
OutputFileOf(inputFile) ==
    [inputFile EXCEPT !.name = <<inputFile.name[1], inputFile.name[2], "out">>]

\* a plausible slip: a missing expected-output file is read as the empty text
expected_empty_when_missing(outputFile, out) ==
    IF ~IsFile(outputFile) THEN "" ELSE Content(outputFile)

\* run_solution lines 179-183
ExpectedOutput(outputFile, out) ==
    IF ~IsFile(outputFile) THEN out ELSE Content(outputFile)

\* test.py class Run
Run(user_output, correct_output, input_file) ==
    [userOutput |-> user_output, correctOutput |-> correct_output, inputFile |-> input_file]

\* a plausible slip: one correct solution is enough
verdict_any_correct(nSolutions, nCorrect) == nCorrect > 0

\* test_solution lines 266-272
Verdict(nSolutions, nCorrect) ==
    IF nSolutions = 0 THEN FALSE
    ELSE IF nCorrect = nSolutions THEN TRUE
    ELSE FALSE

\* a plausible slip: one passing user is enough
some_passed(passing, people) == passing > 0

\* main loop line 374
AllPassed(passing, people) == passing = Len(people)

\* test_solution line 241
ItemType(run, prob) ==
    IF run.inputFile = TestPath(<<prob, "sample", "in">>) THEN "SAMPLE" ELSE "CORNER"

ValidUser(user) == user \in userDirs /\ user \in writerLinks

EmptyLog == [verdicts |-> <<>>, compared |-> 0, consistent |-> NoResult,
             finalized |-> 0, representative |-> None]

(***************************************************************************)
(* test_solution                                                           *)
(***************************************************************************)
\* lines 196-204: the user has no directory or is no registered writer
TestSolutionInvalidUser ==
    /\ pc = "persons"
    /\ personIdx <= Len(peopleToTest)
    /\ ~ValidUser(peopleToTest[personIdx])
    /\ person' = peopleToTest[personIdx]
    /\ returned' = PyBool(FALSE)
    /\ mainLog' = [mainLog EXCEPT ![problem].verdicts = Append(@, FALSE)]
    /\ personIdx' = personIdx + 1
    /\ UNCHANGED <<pc, passingPeople, raised>>
    /\ UNCHANGED <<substVars, fsVars, argVars, flagVars, testVars, runVars,
                   diffFiles, histVars>>

\* lines 196-229: a valid user; the output directory is made, the input file
\* list is built and the user's directory is listed
TestSolutionEnter ==
    /\ pc = "persons"
    /\ personIdx <= Len(peopleToTest)
    /\ ValidUser(peopleToTest[personIdx])
    /\ person' = peopleToTest[personIdx]
    /\ outputDirs' = outputDirs \cup {peopleToTest[personIdx]}
    /\ inputFileList' = BuildInputFileList(problem)
    /\ \E listing \in Orderings(Candidates(peopleToTest[personIdx], problem)) :
          attempts' = Matches(listing, problem)
    /\ attempt' = None
    /\ numSolutions' = 0
    /\ numCorrectSolutions' = 0
    /\ returned' = NoResult
    /\ pc' = "attempts"
    /\ compileRuns' = <<>> /\ compiled' = NoResult
    /\ executions' = <<>> /\ reports' = 0
    /\ attempted' = 0 /\ attemptsOk' = TRUE /\ differSeen' = FALSE
    /\ results' = <<>> /\ inputIdx' = 1
    /\ output' = Unbound /\ outputFileContents' = Unbound
    /\ UNCHANGED <<personIdx, passingPeople, raised>>
    /\ UNCHANGED <<testDir, userDirs, writerLinks, userListing, userGenerated,
                   userOutput, finalDirExists, finalDir>>
    /\ UNCHANGED <<substVars, argVars, flagVars, diffFiles, mainLog>>

\* lines 231-235: the next matching (file, language) pair
StartAttempt ==
    /\ pc = "attempts"
    /\ attempts # <<>>
    /\ attempt' = Head(attempts)
    /\ attempts' = Tail(attempts)
    /\ numSolutions' = numSolutions + 1
    /\ attempted' = attempted + 1
    /\ pc' = "compile"
    /\ compileRuns' = <<>> /\ compiled' = NoResult
    /\ executions' = <<>> /\ reports' = 0
    /\ results' = <<>> /\ inputIdx' = 1
    /\ output' = Unbound /\ outputFileContents' = Unbound
    /\ UNCHANGED <<person, personIdx, passingPeople, returned, raised>>
    /\ UNCHANGED <<inputFileList, numCorrectSolutions, attemptsOk, differSeen>>
    /\ UNCHANGED <<substVars, fsVars, argVars, flagVars, diffFiles, mainLog>>

\* line 236, compile_solution: the compile process, when there is one, ends
\* with some exit status. On success run_solution starts (lines 165-168).
CompileSolution ==
    /\ pc = "compile"
    /\ \E status \in ExitStatuses :
          LET r == compile_solution(languages[attempt.lang], status)
          IN  /\ compileRuns' = IF r.calls > 0 THEN Append(compileRuns, status)
                                 ELSE compileRuns
              /\ compiled' = PyBool(r.ok)
              /\ attemptsOk' = (attemptsOk /\ r.ok)
              /\ pc' = IF r.ok THEN "run" ELSE "attempts"
    /\ UNCHANGED <<person, personIdx, passingPeople, returned, raised>>
    /\ UNCHANGED <<executions, reports, attempted, differSeen>>
    /\ UNCHANGED <<substVars, fsVars, argVars, flagVars, testVars, runVars,
                   diffFiles, mainLog>>

\* a plausible slip: a crashed execution is recorded with no output, against
\* the expected output of its own input
crashed_run_empty(inputFile) ==
    Run("", ExpectedOutput(OutputFileOf(inputFile), ""), inputFile)

\* run_solution line 189: the Run appended in the except branch, built from
\* what output and outputFileContents hold at that moment
CrashedRun(inputFile) == Run(output, outputFileContents, inputFile)

\* run_solution lines 169-189, one input file: the run process ends with
\* some exit status, having printed some text
RunInput ==
    /\ pc = "run"
    /\ inputIdx <= Len(inputFileList)
    /\ LET inputFile == inputFileList[inputIdx]
           outputFile == OutputFileOf(inputFile)
       IN  \E status \in ExitStatuses, stdout \in Outputs :
             /\ executions' = Append(executions, [status |-> status, stdout |-> stdout])
             /\ IF status = 0
                THEN \* lines 174-185
                     /\ output' = stdout
                     /\ userOutput' = [userOutput EXCEPT ![person][outputFile.name] = stdout]
                     /\ outputFileContents' = ExpectedOutput(outputFile, stdout)
                     /\ results' = Append(results,
                                      Run(stdout, ExpectedOutput(outputFile, stdout), inputFile))
                     /\ inputIdx' = inputIdx + 1
                     /\ UNCHANGED <<pc, raised>>
                ELSE IF output = Unbound
                THEN \* line 189 reads output, which no earlier input has bound
                     /\ raised' = "UnboundLocalError"
                     /\ pc' = "raised"
                     /\ UNCHANGED <<userOutput, runVars>>
                ELSE \* lines 187-189
                     /\ results' = Append(results, CrashedRun(inputFile))
                     /\ inputIdx' = inputIdx + 1
                     /\ UNCHANGED <<pc, raised, userOutput, output, outputFileContents>>
    /\ UNCHANGED <<person, personIdx, passingPeople, returned>>
    /\ UNCHANGED <<compileRuns, compiled, reports, attempted,
                   attemptsOk, differSeen>>
    /\ UNCHANGED <<testDir, userDirs, writerLinks, userListing, userGenerated,
                   outputDirs, finalDirExists, finalDir>>
    /\ UNCHANGED <<substVars, argVars, flagVars, testVars, diffFiles, mainLog>>

\* the inputs of the attempt at hand on which the process printed something
\* else than the expected-output file holds
Differing ==
    {i \in DOMAIN executions :
        /\ IsFile(OutputFileOf(inputFileList[i]))
        /\ executions[i].stdout # Content(OutputFileOf(inputFileList[i]))}

\* run_solution returns (line 191); test_solution lines 239-262 compare the
\* runs, print a FAILED line for each mismatch and write its diff file
CompareRuns ==
    /\ pc = "run"
    /\ inputIdx > Len(inputFileList)
    /\ LET failed == {i \in DOMAIN results :
                         results[i].userOutput # results[i].correctOutput}
           numCorrectRuns == Len(results) - Cardinality(failed)
       IN  /\ reports' = Cardinality(failed)
           /\ diffFiles' =
                 IF generateHTML
                 THEN diffFiles \cup
                      { <<person, ItemType(results[i], problem),
                          languages[attempt.lang].language, problem>> : i \in failed }
                 ELSE diffFiles
           /\ numCorrectSolutions' =
                 IF numCorrectRuns = Len(results)
                 THEN numCorrectSolutions + 1 ELSE numCorrectSolutions
           /\ attemptsOk' = (attemptsOk /\ failed = {})
    /\ differSeen' = (differSeen \/ Differing # {})
    /\ pc' = "attempts"
    /\ UNCHANGED <<person, personIdx, passingPeople, returned, raised>>
    /\ UNCHANGED <<inputFileList, attempts, attempt, numSolutions>>
    /\ UNCHANGED <<compileRuns, compiled, executions, attempted>>
    /\ UNCHANGED <<substVars, fsVars, argVars, flagVars, runVars, mainLog>>

\* lines 266-272, and the main loop's lines 370-372
TestSolutionReturn ==
    /\ pc = "attempts"
    /\ attempts = <<>>
    /\ returned' = PyBool(Verdict(numSolutions, numCorrectSolutions))
    /\ passingPeople' = IF Verdict(numSolutions, numCorrectSolutions)
                        THEN passingPeople + 1 ELSE passingPeople
    /\ mainLog' = [mainLog EXCEPT ![problem].verdicts =
                       Append(@, Verdict(numSolutions, numCorrectSolutions))]
    /\ personIdx' = personIdx + 1
    /\ pc' = "persons"
    /\ UNCHANGED <<person, raised>>
    /\ UNCHANGED <<substVars, fsVars, argVars, flagVars, testVars, runVars,
                   diffFiles, histVars>>

(***************************************************************************)
(* The main loop, lines 367-378                                            *)
(***************************************************************************)
\* the locals of the last test_solution call, and the history kept about it,
\* are gone once the loop over the persons is left
LocalsDropped ==
    /\ inputFileList' = <<>> /\ attempts' = <<>> /\ attempt' = None
    /\ numSolutions' = 0 /\ numCorrectSolutions' = 0
    /\ results' = <<>> /\ inputIdx' = 1
    /\ output' = Unbound /\ outputFileContents' = Unbound
    /\ compileRuns' = <<>> /\ compiled' = NoResult
    /\ executions' = <<>> /\ reports' = 0
    /\ attempted' = 0 /\ attemptsOk' = TRUE /\ differSeen' = FALSE
    /\ returned' = NoResult

\* lines 374-376: every user passed, the generated outputs are compared
CompareGenerated ==
    /\ pc = "persons"
    /\ personIdx > Len(peopleToTest)
    /\ AllPassed(passingPeople, peopleToTest)
    /\ consistent' = PyBool(compare_generated_outputs(problem, peopleToTest))
    /\ mainLog' = [mainLog EXCEPT ![problem].compared = @ + 1,
                                  ![problem].consistent = consistent']
    /\ pc' = IF compare_generated_outputs(problem, peopleToTest) THEN "copy" ELSE "next"
    /\ LocalsDropped
    /\ UNCHANGED <<problem, peopleToTest, copied>>
    /\ UNCHANGED <<person, personIdx, passingPeople, raised>>
    /\ UNCHANGED <<substVars, fsVars, flagVars, diffFiles>>

\* line 374: somebody did not pass
SkipCompare ==
    /\ pc = "persons"
    /\ personIdx > Len(peopleToTest)
    /\ ~AllPassed(passingPeople, peopleToTest)
    /\ pc' = "next"
    /\ LocalsDropped
    /\ UNCHANGED <<person, personIdx, passingPeople, raised>>
    /\ UNCHANGED <<substVars, fsVars, argVars, flagVars, diffFiles, mainLog>>

\* line 377: peopleToTest[0] is evaluated, then copy_to_final_io is called
CopyToFinalIO ==
    /\ pc = "copy"
    /\ IF peopleToTest = <<>>
       THEN /\ raised' = "IndexError"
            /\ pc' = "raised"
            /\ UNCHANGED <<copied, finalDirExists, finalDir, mainLog>>
       ELSE LET r == copy_to_final_io(problem, peopleToTest[1])
            IN  /\ copied' = PyBool(r.ok)
                /\ finalDirExists' = r.exists
                /\ finalDir' = r.files
                /\ mainLog' = [mainLog EXCEPT ![problem].finalized = @ + 1,
                                              ![problem].representative = peopleToTest[1]]
                /\ pc' = "next"
                /\ UNCHANGED raised
    /\ UNCHANGED <<problem, peopleToTest, consistent>>
    /\ UNCHANGED <<person, personIdx, passingPeople, returned>>
    /\ UNCHANGED <<testDir, userDirs, writerLinks, userListing, userGenerated,
                   outputDirs, userOutput>>
    /\ UNCHANGED <<substVars, flagVars, testVars, runVars, diffFiles, histVars>>

\* line 367: the next problem of problemsToDo, or the end of the script
NextProblem ==
    /\ pc = "next"
    /\ IF problem < problemCount
       THEN /\ problem' = problem + 1
            /\ personIdx' = 1
            /\ passingPeople' = 0
            /\ pc' = "persons"
       ELSE /\ pc' = "done"
            /\ UNCHANGED <<problem, personIdx, passingPeople>>
    /\ consistent' = NoResult
    /\ copied' = NoResult
    /\ UNCHANGED <<peopleToTest, person, returned, raised>>
    /\ UNCHANGED <<substVars, fsVars, flagVars, testVars, runVars, diffFiles,
                   histVars, mainLog>>

(***************************************************************************)
(* ---------------- Initial states --------------------------------------- *)
(***************************************************************************)
\* test_solution's and run_solution's locals, and the history, before any call
LocalsStart ==
    /\ inputFileList = <<>> /\ attempts = <<>> /\ attempt = None
    /\ numSolutions = 0 /\ numCorrectSolutions = 0
    /\ results = <<>> /\ inputIdx = 1
    /\ output = Unbound /\ outputFileContents = Unbound
    /\ diffFiles = {}
    /\ compileRuns = <<>> /\ compiled = NoResult
    /\ executions = <<>> /\ reports = 0
    /\ attempted = 0 /\ attemptsOk = TRUE /\ differSeen = FALSE
    /\ mainLog = [p \in Problems |-> EmptyLog]

\* the script before the main loop's first iteration
ScriptStart ==
    /\ pc = "persons" /\ person = None /\ personIdx = 1 /\ passingPeople = 0
    /\ returned = NoResult /\ raised = None
    /\ consistent = NoResult /\ copied = NoResult
    /\ LocalsStart

\* which test files exist: the same pattern for every problem. Input files
\* hold InputText, expected-output files hold "a".
TestShapes == SUBSET (Cases \X Endings)
\* the test files a problem has when complete: the generated case has no
\* expected output
FullShape == (Cases \X Endings) \ {<<"generated", "out">>}
TestDirOf(shape) ==
    [b \in Basenames |->
        IF <<b[2], b[3]>> \in shape
        THEN (IF b[3] = "in" THEN InputText ELSE "a")
        ELSE NoFile]

\* a user's directory holding, for every problem, a file of each given extension
ListingOf(exts) == [u \in Users |-> {SolutionName(p, e) : p \in Problems, e \in exts[u]}]
GeneratedOf(gen) == [u \in Users |-> [p \in Problems |-> gen[u]]]
NoOutputs == [u \in Users |-> EmptyDir]

\* one test_solution pass, for alice, under every shape of environment
InitTest ==
    /\ ScriptStart /\ SubstIdle
    /\ problem = 1
    /\ peopleToTest = <<"alice">>
    /\ skipSample \in BOOLEAN /\ skipCorner \in BOOLEAN /\ generateHTML \in BOOLEAN
    /\ \E shape \in SUBSET FullShape : testDir = TestDirOf(shape)
    /\ userDirs \in SUBSET {"alice"}
    /\ writerLinks \in SUBSET {"alice"}
    /\ \E exts \in SUBSET Extensions :
          userListing = ListingOf([u \in Users |->
                            IF u \in userDirs THEN exts ELSE {}])
    /\ userGenerated = GeneratedOf([u \in Users |-> NoFile])
    /\ outputDirs \in SUBSET userDirs
    /\ userOutput = NoOutputs
    /\ finalDirExists = FALSE
    /\ finalDir = EmptyDir

\* the test directories of the main loop's runs: the full set of a problem
\* (sample and corner input and expected output, generated input), the
\* generated input alone, or nothing
MainShapes == { FullShape, {<<"generated", "in">>}, {} }

MainUsers == {"alice", "bob"}

\* the main loop over up to MaxPeople users; a registered user has a python
\* solution or none
InitMain ==
    /\ ScriptStart /\ SubstIdle
    /\ problem = 1
    /\ peopleToTest \in SeqsUpTo(MainUsers, MaxPeople)
    /\ skipSample = FALSE /\ skipCorner = FALSE /\ generateHTML = FALSE
    /\ \E shape \in MainShapes : testDir = TestDirOf(shape)
    /\ userDirs \in SUBSET MainUsers
    /\ writerLinks = userDirs
    /\ \E exts \in [Users -> {{}, {"py"}}] :
          /\ \A u \in Users : u \notin userDirs => exts[u] = {}
          /\ userListing = ListingOf(exts)
    /\ \E gen \in [Users -> {NoFile, "a"}] :
          /\ \A u \in Users : u \notin userDirs => gen[u] = NoFile
          /\ userGenerated = GeneratedOf(gen)
    /\ outputDirs = {}
    /\ userOutput = NoOutputs
    /\ finalDirExists = FALSE
    /\ finalDir = EmptyDir

\* compare_generated_outputs on its own: any list of up to MaxUsers users, each
\* with no generated output file, an empty one, or one holding "a" or "b"
InitCompare ==
    /\ LocalsStart /\ SubstIdle
    /\ problem \in Problems
    /\ peopleToTest \in SeqsUpTo(Users, MaxUsers)
    /\ pc = "persons" /\ person = None
    /\ personIdx = Len(peopleToTest) + 1 /\ passingPeople = Len(peopleToTest)
    /\ returned = NoResult /\ raised = None
    /\ consistent = NoResult /\ copied = NoResult
    /\ skipSample = FALSE /\ skipCorner = FALSE /\ generateHTML = FALSE
    /\ testDir = EmptyDir
    /\ userDirs = Users /\ writerLinks = Users
    /\ userListing = ListingOf([u \in Users |-> {}])
    /\ \E gen \in [Users -> {NoFile, ""} \cup Outputs] : userGenerated = GeneratedOf(gen)
    /\ outputDirs = {}
    /\ userOutput = NoOutputs
    /\ finalDirExists = FALSE
    /\ finalDir = EmptyDir

\* copy_to_final_io on its own: any set of test files, alice's generated
\* output there or not, and a final directory that is absent, empty, or holds
\* older files
FinalDirs ==
    { EmptyDir,
      [b \in Basenames |-> "old"],
      [b \in Basenames |-> IF b[2] = "sample" THEN "old" ELSE NoFile] }

InitFinal ==
    /\ LocalsStart /\ SubstIdle
    /\ pc = "copy" /\ person = None /\ personIdx = 2 /\ passingPeople = 1
    /\ returned = NoResult /\ raised = None
    /\ consistent = PyBool(TRUE) /\ copied = NoResult
    /\ problem \in Problems
    /\ peopleToTest = <<"alice">>
    /\ skipSample = FALSE /\ skipCorner = FALSE /\ generateHTML = FALSE
    /\ \E shape \in TestShapes : testDir = TestDirOf(shape)
    /\ userDirs = {"alice"} /\ writerLinks = {"alice"}
    /\ userListing = ListingOf([u \in Users |-> {}])
    /\ userGenerated = GeneratedOf([u \in Users |-> NoFile])
    /\ outputDirs = {"alice"}
    /\ \E g \in {NoFile, "b"} :
          userOutput = [NoOutputs EXCEPT !["alice"] =
                           [b \in Basenames |->
                               IF b[2] = "generated" /\ b[3] = "out" THEN g ELSE NoFile]]
    /\ finalDirExists \in BOOLEAN
    /\ finalDir \in FinalDirs
    /\ ~finalDirExists => finalDir = EmptyDir

(***************************************************************************)
(* ---------------- Specifications --------------------------------------- *)
(***************************************************************************)
InitSubst ==
    /\ variables \in PlaceholderMaps
    /\ languageBlock \in LanguageBlocks
    /\ problemFile \in ProblemFiles
    /\ directory \in Directories
    /\ newLanguageBlock = NoBlock
    /\ firstLanguageBlock = NoBlock
    /\ substCalls = 0
    /\ ScriptStart
    /\ problem = 1 /\ peopleToTest = <<>>
    /\ skipSample = FALSE /\ skipCorner = FALSE /\ generateHTML = FALSE
    /\ testDir = EmptyDir
    /\ userDirs = {} /\ writerLinks = {}
    /\ userListing = ListingOf([u \in Users |-> {}])
    /\ userGenerated = GeneratedOf([u \in Users |-> NoFile])
    /\ outputDirs = {}
    /\ userOutput = NoOutputs
    /\ finalDirExists = FALSE
    /\ finalDir = EmptyDir

\* one call of replace_language_vars(languageBlock, problemFile, directory)
ReplaceLanguageVars ==
    /\ substCalls < 2
    /\ newLanguageBlock' = replace_language_vars(languageBlock, problemFile, directory)
    /\ firstLanguageBlock' = IF substCalls = 0 THEN newLanguageBlock'
                             ELSE firstLanguageBlock
    /\ substCalls' = substCalls + 1
    /\ UNCHANGED <<variables, languageBlock, problemFile, directory>>
    /\ UNCHANGED <<fsVars, argVars, mainVars, flagVars, testVars, runVars,
                   diffFiles, histVars, mainLog>>

\* the substitution engine called twice on one language block
SpecSubst == InitSubst /\ [][ReplaceLanguageVars]_vars

Next ==
    \/ TestSolutionInvalidUser
    \/ TestSolutionEnter
    \/ StartAttempt
    \/ CompileSolution
    \/ RunInput
    \/ CompareRuns
    \/ TestSolutionReturn
    \/ CompareGenerated
    \/ SkipCompare
    \/ CopyToFinalIO
    \/ NextProblem

\* the whole script
Spec == InitMain /\ [][Next]_vars

\* the script with one user to test
SpecTest == InitTest /\ [][Next]_vars

\* the consistency check and finalization on their own
SpecCompare == InitCompare /\ [][CompareGenerated]_vars
SpecFinal == InitFinal /\ [][CopyToFinalIO]_vars

(***************************************************************************)
(* Claims about the substitution engine.                                   *)
(***************************************************************************)
\* the (placeholder text, value) pairs of one call
PlaceholderPairs ==
    { <<variables.filename, problemFile>>,
      <<variables.filename_less_extension, splitext(problemFile)>>,
      <<variables.directory, directory>> }

\* one pass over s in which each occurrence of a placeholder text (the longest
\* one that starts there) gives way to its own value, which is not scanned again
RECURSIVE Substitute(_, _)
Substitute(s, pairs) ==
    IF s = <<>> THEN <<>>
    ELSE LET here == {p \in pairs : p[1] # <<>> /\ StartsWith(s, p[1])}
         IN  IF here = {} THEN <<Head(s)>> \o Substitute(Tail(s), pairs)
             ELSE LET best == CHOOSE p \in here : \A q \in here : Len(q[1]) <= Len(p[1])
                  IN  best[2] \o Substitute(SubSeq(s, Len(best[1]) + 1, Len(s)), pairs)

\* the chained replacement done in the order given by a sequence of pairs
RECURSIVE Chained(_, _)
Chained(s, order) ==
    IF order = <<>> THEN s
    ELSE Chained(Replace(s, order[1][1], order[1][2]), Tail(order))

Orders(pairs) ==
    {o \in [1..Cardinality(pairs) -> pairs] : \A i, j \in DOMAIN o : i # j => o[i] # o[j]}

\* the (template, result) pairs of the str items and list entries of a call
Rewritten(before, after) ==
    { <<before[k].str, after[k].str>> : k \in {k \in DOMAIN before : ~before[k].list} }
    \cup UNION { { <<before[k].items[i], after[k].items[i]>> : i \in DOMAIN after[k].items }
                 : k \in {k \in DOMAIN before : before[k].list} }

Occurs(s, text) == \E i \in 1..Len(s) : StartsWith(SubSeq(s, i, Len(s)), text)
HasPlaceholder(s) == \E p \in PlaceholderPairs : Occurs(s, p[1])

\* C7: substitution is order-independent and never partially matches: every
\* rewritten string is the template with each placeholder occurrence replaced
\* by exactly its own value, and chaining the replacements in any order gives
\* that same string.
C7_OrderIndependent ==
    substCalls > 0 =>
        \A r \in Rewritten(languageBlock, newLanguageBlock) :
            /\ r[2] = Substitute(r[1], PlaceholderPairs)
            /\ \A o \in Orders(PlaceholderPairs) : Chained(r[1], o) = r[2]

MatchingFiles(user, prob) ==
    { m \in userListing[user] \X (1..Len(languages)) :
        m[1] = SolutionName(prob, get_source_extension(languages[m[2]])) }

\* test_solution has just returned for a valid user
ReturnedForValidUser ==
    pc = "persons" /\ returned # NoResult /\ person # None /\ ValidUser(person)

\* C1: for a valid user test_solution returns true exactly when at least one
\* file of the user's directory matches the problem's solution name in some
\* language's source extension and every matching attempt compiled and had
\* every run of its batch equal to the expected output; every match is tried.
C1_Verdict ==
    ReturnedForValidUser =>
        /\ attempted = Cardinality(MatchingFiles(person, problem))
        /\ returned = PyBool(MatchingFiles(person, problem) # {} /\ attemptsOk)

\* C1 witness: two matching files, one attempt correct and the other failing
\* to compile, and test_solution returned false
C1_Witness ==
    /\ ReturnedForValidUser
    /\ attempted = 2 /\ numSolutions = 2 /\ numCorrectSolutions = 1
    /\ compiled = "False"
    /\ returned = "False"

\* C2: compare_generated_outputs returns true exactly when the generated
\* outputs of all users of the list are pairwise equal, a user without the
\* file counting as the empty text.
C2_PairwiseEqual ==
    consistent # NoResult =>
        LET out(u) == IF userGenerated[u][problem] = NoFile
                      THEN "" ELSE userGenerated[u][problem]
        IN  consistent = PyBool(\A i, j \in DOMAIN peopleToTest :
                                    out(peopleToTest[i]) = out(peopleToTest[j]))

\* C2 witness: three different users, one without the file, one with an empty
\* file, and the check returned true
C2_Witness ==
    /\ consistent = "True"
    /\ Len(peopleToTest) = 3
    /\ \A i, j \in DOMAIN peopleToTest : i # j => peopleToTest[i] # peopleToTest[j]
    /\ \E i \in DOMAIN peopleToTest : userGenerated[peopleToTest[i]][problem] = NoFile
    /\ \E i \in DOMAIN peopleToTest : userGenerated[peopleToTest[i]][problem] = ""

\* C3: copy_to_final_io returns false and leaves the final directory as it was
\* (not even created) when one of the six required files is absent; when all
\* six exist it returns true and the final directory then exists and holds a
\* copy of each of the six, every other file of it being as before.
C3_AllOrNothing ==
    [][(CopyToFinalIO /\ peopleToTest # <<>>) =>
        LET list == copyList(problem, peopleToTest[1])
            names == {list[i].name : i \in DOMAIN list}
        IN  IF \E i \in DOMAIN list : ~IsFile(list[i])
            THEN /\ copied' = "False"
                 /\ finalDirExists' = finalDirExists
                 /\ finalDir' = finalDir
            ELSE /\ copied' = "True"
                 /\ finalDirExists'
                 /\ Cardinality(names) = 6
                 /\ \A i \in DOMAIN list : finalDir'[list[i].name] = Content(list[i])
                 /\ \A b \in Basenames \ names : finalDir'[b] = finalDir[b]
    ]_vars

\* C3 witness: the copy was made; the final directory holds the user's
\* generated output and the sample input
C3_Witness ==
    /\ copied = "True"
    /\ finalDirExists
    /\ finalDir[<<problem, "generated", "out">>] = "b"
    /\ finalDir[<<problem, "sample", "in">>] = InputText
    /\ finalDir[<<problem, "corner", "out">>] = "a"

\* the comparison of the attempt at hand has been made
AttemptCompared ==
    compiled = "True" /\ pc \in {"attempts", "persons", "copy", "next", "done"}

\* C4: for an attempt the number of FAILED lines equals the number of inputs on
\* which the run printed something else than the expected output, and a
\* test_solution call in which some attempt did so returns false.
C4_MismatchReports ==
    /\ AttemptCompared => reports = Cardinality(Differing)
    /\ (pc = "persons" /\ returned # NoResult /\ differSeen) => returned = "False"

\* C5: a run appended for a successful execution on an input that has no
\* expected-output file has correctOutput equal to its userOutput.
C5_SelfBaseline ==
    \A i \in DOMAIN results :
        (executions[i].status = 0 /\ ~IsFile(OutputFileOf(results[i].inputFile)))
            => results[i].correctOutput = results[i].userOutput

\* C5 witness: a successful run that printed "b" on an input without an
\* expected-output file
C5_Witness ==
    \E i \in DOMAIN results :
        /\ executions[i].status = 0
        /\ ~IsFile(OutputFileOf(results[i].inputFile))
        /\ results[i].userOutput = "b"

\* C6: compile_solution returns true without starting a process for a
\* language with no compile step; otherwise it starts the compile process once
\* and returns true exactly when that process exits with status zero, and a
\* nonzero status raises nothing.
C6_Compile ==
    compiled # NoResult =>
        /\ IF "compileExtension" \in DOMAIN languages[attempt.lang]
           THEN Len(compileRuns) = 1 /\ compiled = PyBool(compileRuns[1] = 0)
           ELSE compileRuns = <<>> /\ compiled = "True"
        /\ compiled = "False" => (raised = None /\ pc # "raised")

\* C6 witness: a compile process that exited with status 1
C6_Witness ==
    /\ compiled = "False"
    /\ compileRuns = <<1>>
    /\ pc = "attempts"

C10_OneRunPerInput ==
    /\ raised # "UnboundLocalError"
    /\ (pc = "run" /\ inputIdx > Len(inputFileList)) =>
          /\ Len(results) = Len(inputFileList)
          /\ \A i \in DOMAIN results : results[i].inputFile = inputFileList[i]

\* the generated output run_solution saved for the user in this pass (NoFile
\* when no run on the generated input was saved)
PersistedGenerated(prob, user) == userOutput[user][<<prob, "generated", "out">>]

\* C11: once the consistency check has been made, for every user of the list
\* whose run on the generated input was saved in this pass, the text the check
\* read and compared for that user is the text of that saved file.
C11_SamePath ==
    consistent # NoResult =>
        \A i \in DOMAIN peopleToTest :
            PersistedGenerated(problem, peopleToTest[i]) # NoFile =>
                GeneratedOutput(problem, peopleToTest[i])
                    = PersistedGenerated(problem, peopleToTest[i])

\* C12: the harness runs to completion: no exception ends the script, and when
\* the main loop is over test_solution has been called, for every problem, for
\* every person of the list.
C12_RunsToCompletion ==
    /\ raised = None /\ pc # "raised"
    /\ pc = "done" =>
          \A p \in Problems : Len(mainLog[p].verdicts) = Len(peopleToTest)

\* test_solution is between building its input list and returning
InsideTestSolution == pc \in {"attempts", "compile", "run"}

\* position of a case in the order sample, corner, generated
CaseRank(case) ==
    CASE case = "sample" -> 1 [] case = "corner" -> 2 [] case = "generated" -> 3

\* C13: the input-file list of a test_solution call holds input files of the
\* problem's test directory only, in the order sample, corner, generated, each
\* at most once: the sample file exactly when it exists and skipSample is
\* false, the corner file exactly when it exists and skipCorner is false, and
\* the generated file exactly when it exists, whatever the flags.
C13_InputList ==
    InsideTestSolution =>
        LET exists(case) == testDir[<<problem, case, "in">>] # NoFile
            listed(case) == \E i \in DOMAIN inputFileList :
                                inputFileList[i] = TestPath(<<problem, case, "in">>)
        IN  /\ \A i \in DOMAIN inputFileList :
                  /\ inputFileList[i].dir = "test"
                  /\ inputFileList[i].name[1] = problem
                  /\ inputFileList[i].name[3] = "in"
            /\ \A i, j \in DOMAIN inputFileList :
                  i < j => CaseRank(inputFileList[i].name[2])
                              < CaseRank(inputFileList[j].name[2])
            /\ listed("sample") <=> (exists("sample") /\ ~skipSample)
            /\ listed("corner") <=> (exists("corner") /\ ~skipCorner)
            /\ listed("generated") <=> exists("generated")

\* C13 witness: both skip flags set and all three input files there:
\* run_solution is handed the generated input alone
C13_Witness ==
    /\ pc = "run"
    /\ skipSample /\ skipCorner
    /\ \A case \in Cases : testDir[<<problem, case, "in">>] # NoFile
    /\ inputFileList = << TestPath(<<problem, "generated", "in">>) >>

\* the last input before the i-th on which the run process exited with status 0
\* (0 when there is none)
LastSuccessBefore(i) ==
    LET ok == {k \in 1..(i - 1) : executions[k].status = 0}
    IN  IF ok = {} THEN 0 ELSE CHOOSE k \in ok : \A l \in ok : l <= k

\* the attempt at hand matched on its first input and crashed on every later one
MatchedThenCrashed ==
    /\ Len(executions) > 1 /\ Len(results) = Len(executions)
    /\ executions[1].status = 0
    /\ results[1].userOutput = results[1].correctOutput
    /\ \A i \in 2..Len(executions) : executions[i].status # 0

\* C14: the Run appended for an input on which the run command exited nonzero
\* (never the first of the batch) is for that input and carries the userOutput
\* and the correctOutput of the most recent successful execution of the batch,
\* so it compares as that run did; an attempt that matched on its first input
\* and crashed on every later one gets no FAILED line, and a test_solution call
\* made of that one attempt returns true.
C14_StaleRun ==
    /\ \A i \in DOMAIN results :
          executions[i].status # 0 =>
              LET j == LastSuccessBefore(i)
              IN  /\ i > 1 /\ j > 0
                  /\ results[i].inputFile = inputFileList[i]
                  /\ results[i].userOutput = executions[j].stdout
                  /\ results[i].userOutput = results[j].userOutput
                  /\ results[i].correctOutput = results[j].correctOutput
    /\ (AttemptCompared /\ MatchedThenCrashed) => reports = 0
    /\ (ReturnedForValidUser /\ attempted = 1 /\ MatchedThenCrashed)
          => returned = "True"

\* C14 witness: the sample run printed the expected "a", the corner and the
\* generated runs crashed having printed "b", and test_solution returned true
C14_Witness ==
    /\ ReturnedForValidUser /\ attempted = 1
    /\ Len(executions) = 3 /\ MatchedThenCrashed
    /\ IsFile(OutputFileOf(inputFileList[1]))
    /\ IsFile(OutputFileOf(inputFileList[2]))
    /\ executions[2].stdout = "b" /\ executions[3].stdout = "b"
    /\ results[2].userOutput = "a" /\ results[3].correctOutput = "a"
    /\ returned = "True"

====
